---- MODULE Spec2Model ----
(***************************************************************************)
(* Model of src/mod.ts: the four helpers composeMessage, mailTransporter,  *)
(* createAndSetSession and deleteSessionCookie, together with stubs of the *)
(* collaborators they call (nodemailer.createTransport, the Lucia handle   *)
(* and the SvelteKit Cookies sink).                                        *)
(*                                                                         *)
(* An async function runs synchronously up to its first await, so          *)
(* createAndSetSession is three steps: the invocation (which calls         *)
(* lucia.createSession), the settling of the awaited promise by the        *)
(* library, and the continuation after the await.  deleteSessionCookie has *)
(* no await and is one step.                                               *)
(***************************************************************************)
EXTENDS Integers, Sequences, FiniteSets, TLC

\* ------------------------------------------------------------------ bounds
MaxCalls == 2
MaxPrior == 1
MaxTransports == 1

Calls == 1..MaxCalls

\* ------------------------------------------------------------ input domains
UserIds == {"u1", "u2"}
Sinks == {"cookiesA", "cookiesB"}
NoSink == "none"
Errors == {"invalid user id", "db unavailable"}
SessionIds ==
  <<"sid1", "sid2", "sid3", "sid4", "sid5", "sid6", "sid7", "sid8">>
Strings == {"a@x.com", "<p>hi</p>"}
Hosts == {"smtp.example.com", ""}
Ports == {587, 0}
Services == {"gmail", ""}
Emails == {"user@example.com", "b@x.com"}
Passwords == {"user_app_password", "pw"}

EmptyObject == [k \in {} |-> ""]

\* Attribute objects the library may hand back with a cookie.
AttrSets ==
  { EmptyObject,
    [httpOnly |-> TRUE, sameSite |-> "lax"],
    [httpOnly |-> TRUE, sameSite |-> "lax", path |-> "/", maxAge |-> 0] }

SessionCookieName == "auth_session"
NoCookie == [name |-> "", value |-> "", attributes |-> EmptyObject]
NoMessage == [from |-> "", to |-> "", subject |-> "", html |-> ""]
NoConfig ==
  [host |-> "", port |-> 0, secure |-> FALSE, service |-> "",
   auth |-> [user |-> "", pass |-> ""]]

VARIABLES
  pc,                 \* position of each call
  kind,               \* which helper the call slot runs
  userIdOf,           \* userId argument of the call
  sinkOf,             \* cookies argument of the call
  session,            \* local const session of createAndSetSession
  thrown,             \* failure raised at the await
  sessionCookie,      \* local const sessionCookie
  result,             \* rejection reason of the returned promise
  sessions,           \* sessions held by the authentication library
  cookies,            \* per sink, the calls made on it, in order
  log,                \* per call, the collaborator calls it made, in order
  lastFulfilled,      \* per sink, the call on it that was fulfilled last
  composeArgs,        \* arguments of the last composeMessage call
  composed,           \* value the last composeMessage call returned
  transportArgs,      \* arguments of the last mailTransporter call
  createTransportCalls, \* configurations nodemailer.createTransport received
  transporter         \* value the last mailTransporter call returned

sessionVars ==
  <<pc, kind, userIdOf, sinkOf, session, thrown, sessionCookie, result,
    sessions, cookies, log, lastFulfilled>>
mailVars ==
  <<composeArgs, composed, transportArgs, createTransportCalls, transporter>>
vars ==
  <<pc, kind, userIdOf, sinkOf, session, thrown, sessionCookie, result,
    sessions, cookies, log, lastFulfilled,
    composeArgs, composed, transportArgs, createTransportCalls, transporter>>

\* ------------------------------------------------------------ JS semantics
\* { ...base, ...over }: keys of both, a key of over wins.
Spread(base, over) ==
  [k \in (DOMAIN base) \cup (DOMAIN over) |->
     IF k \in DOMAIN over THEN over[k] ELSE base[k]]

\* ------------------------------------------------------------ pure helpers
composeMessage_swapped(from, to, subject, body) ==
  [from |-> from, to |-> to, subject |-> body, html |-> subject]

composeMessage(from, to, subject, body) ==
  [from |-> from, to |-> to, subject |-> subject, html |-> body]

mailTransporter_swapped(host, port, secure, service, email, password) ==
  [host |-> host, port |-> port, secure |-> secure, service |-> service,
   auth |-> [user |-> password, pass |-> email]]

\* The configuration object mailTransporter hands to createTransport.
mailTransporter(host, port, secure, service, email, password) ==
  [host |-> host, port |-> port, secure |-> secure, service |-> service,
   auth |-> [user |-> email, pass |-> password]]

\* Stub of nodemailer.createTransport: the n-th transport, built on config.
createTransport(n, config) == [transport |-> n, options |-> config]

\* ------------------------------------------------------------ library stubs
createSessionCookie(sessionId, attributes) ==
  [name |-> SessionCookieName, value |-> sessionId, attributes |-> attributes]

createBlankSessionCookie(attributes) ==
  [name |-> SessionCookieName, value |-> "", attributes |-> attributes]

\* Stub of Cookies.set: the sink records the call.
cookiesSet(sink, name, value, options, c) ==
  [cookies EXCEPT ![sink] =
     Append(@, [method |-> "set", name |-> name, value |-> value,
                options |-> options, call |-> c])]

Event(fn, args) == [fn |-> fn, args |-> args]

\* Sessions the library holds from earlier requests.
PriorSessions(n) == [i \in 1..n |-> [id |-> SessionIds[i], userId |-> "u0"]]

\* Call slots are taken in order.
Free(c) == pc[c] = "idle" /\ (IF c = 1 THEN TRUE ELSE pc[c - 1] # "idle")

\* ------------------------------------------------------------------- Init
SessionInit ==
  /\ pc = [c \in Calls |-> "idle"]
  /\ kind = [c \in Calls |-> "none"]
  /\ userIdOf = [c \in Calls |-> ""]
  /\ sinkOf = [c \in Calls |-> NoSink]
  /\ session = [c \in Calls |-> [id |-> ""]]
  /\ thrown = [c \in Calls |-> ""]
  /\ sessionCookie = [c \in Calls |-> NoCookie]
  /\ result = [c \in Calls |-> ""]
  /\ \E n \in 0..MaxPrior : sessions = PriorSessions(n)
  /\ cookies = [s \in Sinks |-> <<>>]
  /\ log = [c \in Calls |-> <<>>]
  /\ lastFulfilled = [s \in Sinks |-> 0]

MailIdle ==
  /\ composeArgs = <<"", "", "", "">>
  /\ composed = NoMessage
  /\ transportArgs = <<"", 0, FALSE, "", "", "">>
  /\ createTransportCalls = <<>>
  /\ transporter = createTransport(0, NoConfig)

Init == SessionInit /\ MailIdle

MailInit == SessionInit /\ sessions = <<>> /\ MailIdle

\* ------------------------------------------------- createAndSetSession
\* Lines 135-141: the call up to the await.
createAndSetSession(c, userId, sink) ==
  /\ Free(c)
  /\ pc' = [pc EXCEPT ![c] = "awaiting"]
  /\ kind' = [kind EXCEPT ![c] = "createAndSetSession"]
  /\ userIdOf' = [userIdOf EXCEPT ![c] = userId]
  /\ sinkOf' = [sinkOf EXCEPT ![c] = sink]
  /\ log' = [log EXCEPT ![c] =
               Append(@, Event("createSession", <<userId, EmptyObject>>))]
  /\ UNCHANGED <<session, thrown, sessionCookie, result, sessions, cookies,
                 lastFulfilled>>
  /\ UNCHANGED mailVars

\* The library fulfils the promise of createSession with a new session.
createSessionResolves(c) ==
  /\ pc[c] = "awaiting"
  /\ LET id == SessionIds[Len(sessions) + 1] IN
       /\ sessions' = Append(sessions, [id |-> id, userId |-> userIdOf[c]])
       /\ session' = [session EXCEPT ![c] = [id |-> id]]
       /\ log' = [log EXCEPT ![c] =
                    Append(@, Event("createSession.resolved", <<id>>))]
  /\ pc' = [pc EXCEPT ![c] = "resolved"]
  /\ UNCHANGED <<kind, userIdOf, sinkOf, thrown, sessionCookie, result,
                 cookies, lastFulfilled>>
  /\ UNCHANGED mailVars

\* The library rejects the promise of createSession.
createSessionRejects(c, error) ==
  /\ pc[c] = "awaiting"
  /\ thrown' = [thrown EXCEPT ![c] = error]
  /\ log' = [log EXCEPT ![c] =
               Append(@, Event("createSession.rejected", <<error>>))]
  /\ pc' = [pc EXCEPT ![c] = "threw"]
  /\ UNCHANGED <<kind, userIdOf, sinkOf, session, sessionCookie, result,
                 sessions, cookies, lastFulfilled>>
  /\ UNCHANGED mailVars

Rethrow_wrapped(error) == "Error: session creation failed"

\* Line 141: no try/catch around the await, the failure leaves as it came.
Rethrow(error) == error

\* The await throws: the returned promise is rejected.
createAndSetSessionThrows(c) ==
  /\ pc[c] = "threw"
  /\ result' = [result EXCEPT ![c] = Rethrow(thrown[c])]
  /\ pc' = [pc EXCEPT ![c] = "rejected"]
  /\ UNCHANGED <<kind, userIdOf, sinkOf, session, thrown, sessionCookie,
                 sessions, cookies, log, lastFulfilled>>
  /\ UNCHANGED mailVars

Resumable_noAwait(c) ==
  pc[c] \in {"awaiting", "resolved"} /\ kind[c] = "createAndSetSession"

\* Line 141: the code after the await runs once the promise is fulfilled.
Resumable(c) == pc[c] = "resolved"

SessionIdArg_shared(c) ==
  IF sessions = <<>> THEN "" ELSE sessions[Len(sessions)].id

SessionIdArg_userId(c) == userIdOf[c]

\* Line 144: the argument of createSessionCookie is session.id.
SessionIdArg(c) == session[c].id

establishOptions_pathLast(attributes) == Spread(attributes, [path |-> "."])

\* Lines 147-150: { path: ".", ...sessionCookie.attributes }
establishOptions(attributes) == Spread([path |-> "."], attributes)

\* Lines 143-151: the code after the await.
createAndSetSessionResumes(c) ==
  /\ Resumable(c)
  /\ \E attributes \in AttrSets :
       LET cookie == createSessionCookie(SessionIdArg(c), attributes) IN
         /\ sessionCookie' = [sessionCookie EXCEPT ![c] = cookie]
         /\ cookies' = cookiesSet(sinkOf[c], cookie.name, cookie.value,
                                  establishOptions(cookie.attributes), c)
         /\ log' = [log EXCEPT ![c] = @ \o
              << Event("createSessionCookie", <<SessionIdArg(c)>>),
                 Event("cookies.set", <<cookie.name, cookie.value>>) >>]
  /\ pc' = [pc EXCEPT ![c] = "fulfilled"]
  /\ lastFulfilled' = [lastFulfilled EXCEPT ![sinkOf[c]] = c]
  /\ UNCHANGED <<kind, userIdOf, sinkOf, session, thrown, result, sessions>>
  /\ UNCHANGED mailVars

\* ------------------------------------------------- deleteSessionCookie
clearOptions_pathLast(attributes) == Spread(attributes, [path |-> "."])

clearOptions_pathOnly(attributes) ==
  [path |-> IF "path" \in DOMAIN attributes THEN attributes.path ELSE "."]

\* Lines 184-187: { path: ".", ...sessionCookie.attributes }
clearOptions(attributes) == Spread([path |-> "."], attributes)

deleteSessionCookie_ifSession(c, sink) ==
  /\ Free(c)
  /\ \E attributes \in AttrSets :
       LET cookie == createBlankSessionCookie(attributes) IN
         /\ sessionCookie' = [sessionCookie EXCEPT ![c] = cookie]
         /\ cookies' = IF cookies[sink] = <<>>
                       THEN cookies
                       ELSE cookiesSet(sink, cookie.name, cookie.value,
                                       clearOptions(cookie.attributes), c)
         /\ log' = [log EXCEPT ![c] = @ \o
              << Event("createBlankSessionCookie", <<>>),
                 Event("cookies.set", <<cookie.name, cookie.value>>) >>]
  /\ pc' = [pc EXCEPT ![c] = "fulfilled"]
  /\ kind' = [kind EXCEPT ![c] = "deleteSessionCookie"]
  /\ sinkOf' = [sinkOf EXCEPT ![c] = sink]
  /\ lastFulfilled' = [lastFulfilled EXCEPT ![sink] = c]
  /\ UNCHANGED <<userIdOf, session, thrown, result, sessions>>
  /\ UNCHANGED mailVars

\* Lines 176-188: the whole call, it has no await.
deleteSessionCookie(c, sink) ==
  /\ Free(c)
  /\ \E attributes \in AttrSets :
       LET cookie == createBlankSessionCookie(attributes) IN
         /\ sessionCookie' = [sessionCookie EXCEPT ![c] = cookie]
         /\ cookies' = cookiesSet(sink, cookie.name, cookie.value,
                                  clearOptions(cookie.attributes), c)
         /\ log' = [log EXCEPT ![c] = @ \o
              << Event("createBlankSessionCookie", <<>>),
                 Event("cookies.set", <<cookie.name, cookie.value>>) >>]
  /\ pc' = [pc EXCEPT ![c] = "fulfilled"]
  /\ kind' = [kind EXCEPT ![c] = "deleteSessionCookie"]
  /\ sinkOf' = [sinkOf EXCEPT ![c] = sink]
  /\ lastFulfilled' = [lastFulfilled EXCEPT ![sink] = c]
  /\ UNCHANGED <<userIdOf, session, thrown, result, sessions>>
  /\ UNCHANGED mailVars

\* ------------------------------------------------------------ mail helpers
composeMessageCall ==
  \E from \in Strings, to \in Strings, subject \in Strings, body \in Strings :
    /\ composeArgs' = <<from, to, subject, body>>
    /\ composed' = composeMessage(from, to, subject, body)
    /\ UNCHANGED <<transportArgs, createTransportCalls, transporter>>
    /\ UNCHANGED sessionVars

mailTransporterCall ==
  /\ Len(createTransportCalls) < MaxTransports
  /\ \E host \in Hosts, port \in Ports, secure \in BOOLEAN,
        service \in Services, email \in Emails, password \in Passwords :
       LET config ==
             mailTransporter(host, port, secure, service, email, password)
       IN
         /\ transportArgs' = <<host, port, secure, service, email, password>>
         /\ createTransportCalls' = Append(createTransportCalls, config)
         /\ transporter' =
              createTransport(Len(createTransportCalls) + 1, config)
  /\ UNCHANGED <<composeArgs, composed>>
  /\ UNCHANGED sessionVars

\* --------------------------------------------------------- specifications
Next ==
  \/ \E c \in Calls, userId \in UserIds, sink \in Sinks :
       createAndSetSession(c, userId, sink)
  \/ \E c \in Calls : createSessionResolves(c)
  \/ \E c \in Calls, error \in Errors : createSessionRejects(c, error)
  \/ \E c \in Calls : createAndSetSessionThrows(c)
  \/ \E c \in Calls : createAndSetSessionResumes(c)
  \/ \E c \in Calls, sink \in Sinks : deleteSessionCookie(c, sink)

Spec == Init /\ [][Next]_vars

MailNext == composeMessageCall \/ mailTransporterCall

MailSpec == MailInit /\ [][MailNext]_vars

\* ------------------------------------------------------------- properties
\* C1 as the spec words it: every cookie written by createAndSetSession has
\* options.path = ".", whatever attributes the library returned.
C1_PathAlwaysDot ==
  \A s \in Sinks : \A i \in DOMAIN cookies[s] :
    kind[cookies[s][i].call] = "createAndSetSession"
      => cookies[s][i].options.path = "."

\* C1 amended: a cookie written by createAndSetSession has options.path = "."
\* when the library's attributes carry no path, and the library's path when
\* they carry one.
C1_PathDefaultsToDot ==
  \A s \in Sinks : \A i \in DOMAIN cookies[s] :
    LET w == cookies[s][i]
        a == sessionCookie[w.call].attributes
    IN  kind[w.call] = "createAndSetSession"
          => w.options.path = (IF "path" \in DOMAIN a THEN a.path ELSE ".")

C1_Witness ==
  \E s \in Sinks : \E i \in DOMAIN cookies[s] :
    /\ kind[cookies[s][i].call] = "createAndSetSession"
    /\ "path" \in DOMAIN sessionCookie[cookies[s][i].call].attributes
    /\ cookies[s][i].options.path = "/"

\* C2 as the spec words it: every cookie written by deleteSessionCookie has
\* options.path = ".", whatever attributes the library returned.
C2_BlankPathAlwaysDot ==
  \A s \in Sinks : \A i \in DOMAIN cookies[s] :
    kind[cookies[s][i].call] = "deleteSessionCookie"
      => cookies[s][i].options.path = "."

\* C2 amended: a cookie written by deleteSessionCookie has options.path = "."
\* when the blank cookie's attributes carry no path, and the library's path
\* when they carry one.
C2_BlankPathDefaultsToDot ==
  \A s \in Sinks : \A i \in DOMAIN cookies[s] :
    LET w == cookies[s][i]
        a == sessionCookie[w.call].attributes
    IN  kind[w.call] = "deleteSessionCookie"
          => w.options.path = (IF "path" \in DOMAIN a THEN a.path ELSE ".")

C2_Witness ==
  \E s \in Sinks : \E i \in DOMAIN cookies[s] :
    /\ kind[cookies[s][i].call] = "deleteSessionCookie"
    /\ "path" \in DOMAIN sessionCookie[cookies[s][i].call].attributes
    /\ cookies[s][i].options.path = "/"

\* C3: when createSession fails, the promise createAndSetSession returned is
\* rejected with the library's failure itself, createSessionCookie and
\* cookies.set were never called by that call, and no sink holds a write of it.
C3_FailurePropagates ==
  \A c \in Calls :
    /\ pc[c] \in {"threw", "rejected"} =>
         /\ Len(log[c]) = 2
         /\ log[c][1].fn = "createSession"
         /\ log[c][2] = Event("createSession.rejected", <<thrown[c]>>)
         /\ sessionCookie[c] = NoCookie
         /\ \A s \in Sinks : \A i \in DOMAIN cookies[s] :
              cookies[s][i].call # c
    /\ pc[c] = "rejected" =>
         /\ result[c] = log[c][2].args[1]
         /\ result[c] \in Errors

C3_Witness ==
  \E c \in Calls, d \in Calls :
    /\ pc[c] = "rejected" /\ result[c] = "invalid user id"
    /\ pc[d] = "fulfilled" /\ sinkOf[d] = sinkOf[c]

\* C4: in every run of createAndSetSession, createSession is called first,
\* with the caller's userId and empty metadata, it completes, then
\* createSessionCookie is called, then cookies.set; no cookie is derived or
\* written before createSession has completed.
C4_Order ==
  \A c \in Calls : kind[c] = "createAndSetSession" =>
    LET L == log[c] IN
      /\ Len(L) >= 1
      /\ L[1] = Event("createSession", <<userIdOf[c], EmptyObject>>)
      /\ \A i \in DOMAIN L :
           /\ L[i].fn = "createSession" => i = 1
           /\ L[i].fn \in {"createSession.resolved", "createSession.rejected"}
                => i = 2
           /\ L[i].fn = "createSessionCookie" =>
                i = 3 /\ L[2].fn = "createSession.resolved"
           /\ L[i].fn = "cookies.set" =>
                i = 4 /\ L[3].fn = "createSessionCookie"
      /\ pc[c] = "fulfilled" => Len(L) = 4
      /\ (\E s \in Sinks : \E i \in DOMAIN cookies[s] : cookies[s][i].call = c)
           => Len(L) = 4

C4_Witness ==
  \E c \in Calls :
    /\ kind[c] = "createAndSetSession" /\ pc[c] = "fulfilled"
    /\ \E d \in Calls : pc[d] = "awaiting"

\* C5: a deleteSessionCookie call, from any state of the sink and of the
\* library, is possible and calls createBlankSessionCookie once, then
\* cookies.set once on its sink with the blank cookie's name and value; it
\* makes no other call on the library or on any sink and creates no session.
C5_ClearStep(c) ==
  LET s == sinkOf'[c]
      cookie == sessionCookie'[c]
  IN  /\ pc'[c] = "fulfilled"
      /\ log'[c] = << Event("createBlankSessionCookie", <<>>),
                      Event("cookies.set", <<cookie.name, cookie.value>>) >>
      /\ cookie.value = ""
      /\ Len(cookies'[s]) = Len(cookies[s]) + 1
      /\ SubSeq(cookies'[s], 1, Len(cookies[s])) = cookies[s]
      /\ LET w == cookies'[s][Len(cookies'[s])] IN
           /\ w.method = "set" /\ w.call = c
           /\ w.name = cookie.name /\ w.value = cookie.value
      /\ \A t \in Sinks \ {s} : cookies'[t] = cookies[t]
      /\ sessions' = sessions
      /\ \A d \in Calls \ {c} : log'[d] = log[d]

C5_ClearIndependent ==
  /\ [](\A c \in Calls, s \in Sinks :
          Free(c) => ENABLED deleteSessionCookie(c, s))
  /\ [][\A c \in Calls :
          (pc[c] = "idle" /\ kind'[c] = "deleteSessionCookie")
            => C5_ClearStep(c)]_vars

C5_Witness ==
  \E c \in Calls :
    /\ kind[c] = "deleteSessionCookie" /\ pc[c] = "fulfilled"
    /\ Len(sessions) >= 2
    /\ Len(cookies[sinkOf[c]]) >= 2
    /\ cookies[sinkOf[c]][Len(cookies[sinkOf[c]])].call = c
    /\ \E t \in Sinks : cookies[t] = <<>>

\* C6: composeMessage returns exactly the four fields from, to, subject and
\* html, equal to its arguments from, to, subject and body, and a call
\* changes nothing else.
C6_Echo ==
  /\ [](/\ DOMAIN composed = {"from", "to", "subject", "html"}
        /\ composed.from = composeArgs[1]
        /\ composed.to = composeArgs[2]
        /\ composed.subject = composeArgs[3]
        /\ composed.html = composeArgs[4])
  /\ [][composeArgs' # composeArgs
          => UNCHANGED <<transportArgs, createTransportCalls, transporter,
                         sessionVars>>]_vars

C6_Witness ==
  /\ composeArgs = <<"a@x.com", "<p>hi</p>", "a@x.com", "<p>hi</p>">>
  /\ composed.subject = "a@x.com"
  /\ composed.html = "<p>hi</p>"

\* C7: a mailTransporter call calls createTransport exactly once, with host,
\* port, secure, service equal to its arguments and auth.user = email,
\* auth.pass = password, and returns what that call returned.
C7_TransportConfig ==
  /\ [](createTransportCalls # <<>> =>
          LET n == Len(createTransportCalls)
              config == createTransportCalls[n]
          IN  /\ DOMAIN config = {"host", "port", "secure", "service", "auth"}
              /\ DOMAIN config.auth = {"user", "pass"}
              /\ config.host = transportArgs[1]
              /\ config.port = transportArgs[2]
              /\ config.secure = transportArgs[3]
              /\ config.service = transportArgs[4]
              /\ config.auth.user = transportArgs[5]
              /\ config.auth.pass = transportArgs[6]
              /\ transporter = createTransport(n, config))
  /\ [][(transportArgs' # transportArgs \/ transporter' # transporter)
          => Len(createTransportCalls') = Len(createTransportCalls) + 1]_vars

C7_Witness ==
  /\ Len(createTransportCalls) = 1
  /\ transportArgs = <<"", 0, TRUE, "", "b@x.com", "pw">>
  /\ transporter.options.auth.user = "b@x.com"

\* C8: with createAndSetSession calls in flight together, every fulfilled
\* call has written exactly one cookie, on its own sink, whose value is the
\* cookie of the session createSession returned for that call's userId, and
\* never the cookie of another call's session.
C8_OwnSession ==
  \A c \in Calls :
    (kind[c] = "createAndSetSession" /\ pc[c] = "fulfilled") =>
      /\ \A s \in Sinks \ {sinkOf[c]} : \A i \in DOMAIN cookies[s] :
           cookies[s][i].call # c
      /\ Cardinality({i \in DOMAIN cookies[sinkOf[c]] :
                        cookies[sinkOf[c]][i].call = c}) = 1
      /\ \A i \in DOMAIN cookies[sinkOf[c]] :
           LET w == cookies[sinkOf[c]][i] IN
             w.call = c =>
               /\ w.value = log[c][2].args[1]
               /\ \E k \in DOMAIN sessions :
                    sessions[k] = [id |-> w.value, userId |-> userIdOf[c]]
               /\ \A d \in Calls \ {c} :
                    (kind[d] = "createAndSetSession" /\ Len(log[d]) >= 2
                       /\ log[d][2].fn = "createSession.resolved")
                      => w.value # log[d][2].args[1]

C8_Witness ==
  /\ \A c \in {1, 2} : kind[c] = "createAndSetSession" /\ pc[c] = "fulfilled"
  /\ userIdOf[1] # userIdOf[2]
  /\ sinkOf[1] # sinkOf[2]
  /\ \E i \in DOMAIN sessions, j \in DOMAIN sessions :
       i < j /\ sessions[i].id = session[2].id /\ sessions[j].id = session[1].id

\* C9: in every cookies.set call of either helper, each attribute the library
\* supplied other than path is in the options with the same value, and the
\* options have no key besides path and the library's keys.
C9_PassThrough ==
  \A s \in Sinks : \A i \in DOMAIN cookies[s] :
    LET w == cookies[s][i]
        a == sessionCookie[w.call].attributes
    IN  /\ DOMAIN w.options = (DOMAIN a) \cup {"path"}
        /\ \A k \in (DOMAIN a) \ {"path"} : w.options[k] = a[k]

C9_Witness ==
  \E s \in Sinks, t \in Sinks :
    \E i \in DOMAIN cookies[s], j \in DOMAIN cookies[t] :
      /\ kind[cookies[s][i].call] = "createAndSetSession"
      /\ kind[cookies[t][j].call] = "deleteSessionCookie"
      /\ "httpOnly" \in DOMAIN cookies[s][i].options
      /\ cookies[s][i].options.httpOnly = TRUE
      /\ "maxAge" \in DOMAIN cookies[t][j].options
      /\ cookies[t][j].options.maxAge = 0
      /\ cookies[t][j].options.sameSite = "lax"

\* C10: a createAndSetSession call whose createSession succeeded calls
\* createSessionCookie with the id createSession returned and cookies.set
\* once with that cookie's name and value; the last write on a sink is the
\* cookie of the call fulfilled last on it, blank for deleteSessionCookie.
C10_LastWrite ==
  /\ \A c \in Calls :
       (kind[c] = "createAndSetSession" /\ pc[c] = "fulfilled") =>
         /\ log[c][2].fn = "createSession.resolved"
         /\ log[c][3] = Event("createSessionCookie", log[c][2].args)
         /\ sessionCookie[c].value = log[c][2].args[1]
         /\ Cardinality({i \in DOMAIN cookies[sinkOf[c]] :
               /\ cookies[sinkOf[c]][i].call = c
               /\ cookies[sinkOf[c]][i].name = sessionCookie[c].name
               /\ cookies[sinkOf[c]][i].value = sessionCookie[c].value}) = 1
  /\ \A s \in Sinks :
       lastFulfilled[s] # 0 =>
         LET c == lastFulfilled[s]
             w == cookies[s][Len(cookies[s])]
         IN  /\ w.call = c
             /\ w.name = sessionCookie[c].name
             /\ w.value = sessionCookie[c].value
             /\ kind[c] = "deleteSessionCookie" => w.value = ""
             /\ kind[c] = "createAndSetSession" => w.value = session[c].id

C10_Witness ==
  \E s \in Sinks :
    /\ Len(cookies[s]) = 2
    /\ kind[cookies[s][1].call] = "createAndSetSession"
    /\ kind[cookies[s][2].call] = "deleteSessionCookie"
    /\ cookies[s][1].value # ""
    /\ lastFulfilled[s] = cookies[s][2].call

====
